---- MODULE Spec2Model ----
(***************************************************************************)
(* Turn-based multi-agent game engine: the rock-paper-scissors environment *)
(* (aec_rps.py, raw_env) and the tragedy-of-the-commons environment        *)
(* (tragedy_commons.py, TragedyCommonsEnv).  One environment object is     *)
(* modelled; game says which class it is.  The object's fields are the     *)
(* variables, reset and step of each class are the actions.  Dictionaries  *)
(* keyed by agent are functions, the agents list is a sequence, Python's   *)
(* None is the integer None.                                               *)
(***************************************************************************)
EXTENDS Integers, Sequences, FiniteSets, TLC

VARIABLES
    game,                \* the class of the environment: "rps" or "commons"
    possible_agents,     \* self.possible_agents, in turn order
    render_mode,         \* self.render_mode: "None", "human" or "rgb_array"
    screen,              \* self.screen (commons): "None" or "surface"
    agents,              \* self.agents: agents still in the episode, in turn order
    rewards,             \* self.rewards: reward of the last closed round
    cumulative_rewards,  \* self._cumulative_rewards
    terminations,        \* self.terminations
    truncations,         \* self.truncations
    state,               \* self.state: the round state, one slot per agent
    observations,        \* self.observations
    num_moves,           \* self.num_moves: rounds closed since reset
    agent_selector,      \* self._agent_selector: [order, current_agent, selected_agent]
    agent_selection,     \* self.agent_selection: the current actor
    err,                 \* outcome of the last call: "none" or the error it raised
    \* history variables: they record what the caller did, no operation reads them
    live_steps,          \* step calls on a live actor since reset
    flushed,             \* agents that took their dead step since reset, in order
    submitted,           \* the action each agent passed to its last live step
    last_joint,          \* the joint action of the last closed round
    call,                \* the last call: [op, action]
    reset_from,          \* where the episode was when the last call, a reset, was made
    \* the board of the commons environment
    resources,           \* self.board.resources: the grid, one number per cell
    \* a pure function applied on its own
    fn_arg,              \* the joint action it is applied to, a tuple of move names
    fn_out               \* its last application: [fn, idx, value]

\* the fields the constructor sets and no method assigns again
ctor_vars == <<game, possible_agents, render_mode>>

\* the fields reset and step assign
env_vars == <<screen, agents, rewards, cumulative_rewards, terminations, truncations,
              state, observations, num_moves, agent_selector, agent_selection>>

history_vars == <<live_steps, flushed, submitted, last_joint, call, reset_from>>

\* the argument and the result of a function applied on its own
fn_vars == <<fn_arg, fn_out>>

vars == <<ctor_vars, env_vars, err, history_vars, resources, fn_vars>>

----------------------------------------------------------------------------
\* Module constants of aec_rps.py
ROCK == 0
PAPER == 1
SCISSORS == 2
NONE == 3
NUM_ITERS == 100

\* Module constants of tragedy_commons.py (its NONE and NUM_ITERS are TC_NONE and
\* TC_NUM_ITERS here)
COOPERATE == 0
DEFECT == 1
TC_NONE == 2
TC_NUM_ITERS == 10
NUM_AGENTS == 10

\* tragedy_commons.py MOVES: move -> name
MOVES ==
    [m \in {COOPERATE, DEFECT, TC_NONE} |->
        CASE m = COOPERATE -> "COOPERATE"
          [] m = DEFECT -> "DEFECT"
          [] m = TC_NONE -> "NONE"]

\* Python's None, the action of a dead step
None == -1

\* raw_env.action_space: Discrete(3)
action_space == {ROCK, PAPER, SCISSORS}

\* TragedyCommonsEnv.action_space: Discrete(3)
tc_action_space == 0..2

\* "player_" + str(r), r = 0, 1, 2, ...
PlayerName ==
    <<"player_0", "player_1", "player_2", "player_3", "player_4", "player_5",
      "player_6", "player_7", "player_8", "player_9", "player_10", "player_11">>

\* raw_env.__init__: self.possible_agents
rps_possible_agents == [r \in 1..2 |-> PlayerName[r]]

\* TragedyCommonsEnv.__init__: the keys of self.possible_agents, num_agents of them
tc_possible_agents(num_agents) == [r \in 1..num_agents |-> PlayerName[r]]

\* self.agent_name_mapping: agent name -> index in possible_agents
agent_name_mapping ==
    [a \in {possible_agents[i] : i \in 1..Len(possible_agents)} |->
        (CHOOSE i \in 1..Len(possible_agents) : possible_agents[i] = a) - 1]

REWARD_MAP ==
    [p \in action_space \X action_space |->
        CASE p = <<ROCK, ROCK>> -> <<0, 0>>
          [] p = <<ROCK, PAPER>> -> <<-1, 1>>
          [] p = <<ROCK, SCISSORS>> -> <<1, -1>>
          [] p = <<PAPER, ROCK>> -> <<1, -1>>
          [] p = <<PAPER, PAPER>> -> <<0, 0>>
          [] p = <<PAPER, SCISSORS>> -> <<-1, 1>>
          [] p = <<SCISSORS, ROCK>> -> <<-1, 1>>
          [] p = <<SCISSORS, PAPER>> -> <<1, -1>>
          [] p = <<SCISSORS, SCISSORS>> -> <<0, 0>>]

----------------------------------------------------------------------------
\* Python list helpers

\* seq[i] with Python's indexing: 0-based, a negative index counts from the end
PyIndex(seq, i) == IF i >= 0 THEN seq[i + 1] ELSE seq[Len(seq) + i + 1]

Range(seq) == {seq[i] : i \in 1..Len(seq)}

\* list.remove(x): the list without its first x
ListRemove(seq, x) ==
    LET i == CHOOSE k \in 1..Len(seq) : seq[k] = x /\ \A j \in 1..(k - 1) : seq[j] /= x
    IN  [k \in 1..(Len(seq) - 1) |-> IF k < i THEN seq[k] ELSE seq[k + 1]]

----------------------------------------------------------------------------
\* agent_selector: cyclic stepping through the agents list

\* agent_selector(order): pointer at the start of the order, nothing selected yet
SelectorInit(order) == [order |-> order, current_agent |-> 0, selected_agent |-> "nobody"]

\* next(): select the agent under the pointer and move the pointer on, wrapping
SelectorNext(sel) ==
    [sel EXCEPT !.selected_agent = sel.order[sel.current_agent + 1],
                !.current_agent = (sel.current_agent + 1) % Len(sel.order)]

\* is_last(): the selected agent is the last of the order
is_last(sel) == sel.selected_agent = PyIndex(sel.order, -1)

----------------------------------------------------------------------------
\* AECEnv base-class helpers

\* _clear_rewards(): every reward becomes 0
clear_rewards(rw) == [a \in DOMAIN rw |-> 0]

\* _accumulate_rewards(): add .rewards to ._cumulative_rewards
accumulate_rewards(cum, rw) ==
    [a \in DOMAIN cum |-> IF a \in DOMAIN rw THEN cum[a] + rw[a] ELSE cum[a]]

\* the agent is terminated or truncated
dead(a) == terminations[a] \/ truncations[a]

\* the agents of the list that are dead, in list order
deads_order(ags) == SelectSeq(ags, dead)

----------------------------------------------------------------------------
\* _was_dead_step and the selector calls of step, shared by both environments

\* mutant of was_dead_step: the dead step rebuilds the flags of the agents left
was_dead_step_revive(action) ==
    IF action /= None
    THEN /\ err' = "InvalidActionError"
         /\ UNCHANGED env_vars
    ELSE LET left == ListRemove(agents, agent_selection)
         IN  /\ agents' = left
             /\ truncations' = [a \in DOMAIN truncations |-> FALSE]
             /\ agent_selection' = IF left /= <<>> THEN left[1] ELSE agent_selection
             /\ err' = "none"
             /\ UNCHANGED <<screen, rewards, cumulative_rewards, terminations,
                            state, observations, num_moves, agent_selector>>

\* _was_dead_step(action): the step of an agent that is already dead.  A non-None
\* action is an error and changes nothing; None removes the agent from the agents
\* list and moves agent_selection to the next dead agent, or to the next live
\* agent when no dead agent is left.
was_dead_step(action) ==
    IF action /= None
    THEN /\ err' = "InvalidActionError"
         /\ UNCHANGED env_vars
    ELSE LET left == ListRemove(agents, agent_selection)
             deads == deads_order(left)
         IN  /\ agents' = left
             /\ agent_selection' =
                    IF deads /= <<>> THEN deads[1]
                    ELSE IF left /= <<>> THEN left[1]
                    ELSE agent_selection
             /\ err' = "none"
             /\ UNCHANGED <<screen, rewards, cumulative_rewards, terminations, truncations,
                            state, observations, num_moves, agent_selector>>

\* step: "if self._agent_selector.is_last()", the current actor closes the round
closes_round == is_last(agent_selector)

\* mutant of select_next: the selector is advanced twice
select_next_twice == SelectorNext(SelectorNext(agent_selector))

\* step: "self.agent_selection = self._agent_selector.next()"
select_next == SelectorNext(agent_selector)

----------------------------------------------------------------------------
\* aec_rps.py, raw_env

\* raw_env.observe(agent)
observe(agent) == observations[agent]

\* the other player: self.agents[1 - self.agent_name_mapping[agent]]
other_agent(agent) == PyIndex(agents, 1 - agent_name_mapping[agent])

\* mutant of round_rewards: the key pair is built in the wrong order
round_rewards_swapped(st) ==
    LET rm == REWARD_MAP[<<st[PyIndex(agents, 1)], st[PyIndex(agents, 0)]>>]
    IN  [rewards EXCEPT ![PyIndex(agents, 0)] = rm[1], ![PyIndex(agents, 1)] = rm[2]]

\* mutant of round_rewards: both agents get the first component of the entry
round_rewards_first(st) ==
    LET rm == REWARD_MAP[<<st[PyIndex(agents, 0)], st[PyIndex(agents, 1)]>>]
    IN  [rewards EXCEPT ![PyIndex(agents, 0)] = rm[1], ![PyIndex(agents, 1)] = rm[1]]

\* step, round closure: .rewards read from REWARD_MAP under the round state st
round_rewards(st) ==
    LET rm == REWARD_MAP[<<st[PyIndex(agents, 0)], st[PyIndex(agents, 1)]>>]
    IN  [rewards EXCEPT ![PyIndex(agents, 0)] = rm[1], ![PyIndex(agents, 1)] = rm[2]]

\* mutant of round_truncations: the comparison is off by one
round_truncations_late(moves) == [a \in Range(agents) |-> moves > NUM_ITERS]

\* step, round closure: the truncations dictionary rebuilt for all agents
round_truncations(moves) == [a \in Range(agents) |-> moves >= NUM_ITERS]

\* mutant of round_observations: each agent observes its own slot
round_observations_own(st) ==
    [i \in DOMAIN observations |->
        IF i \in Range(agents) THEN st[i] ELSE observations[i]]

\* step, round closure: each agent observes the round state of the other
round_observations(st) ==
    [i \in DOMAIN observations |->
        IF i \in Range(agents) THEN st[other_agent(i)] ELSE observations[i]]

\* step, not the last actor: the other player's slot becomes NONE
clear_other(st, agent) == [st EXCEPT ![other_agent(agent)] = NONE]

\* mutant of step_rewards: the rewards are not cleared while the round is open
step_rewards_kept(st) ==
    IF closes_round THEN round_rewards(st) ELSE rewards

\* step: the rewards of the closed round, or all 0 while the round is open
step_rewards(st) ==
    IF closes_round THEN round_rewards(st) ELSE clear_rewards(rewards)

\* mutant of live_step: the observations are rebuilt from the round state in every
\* step, not only at round closure
live_step_leaky(action) ==
    LET agent == agent_selection
        cum0 == [cumulative_rewards EXCEPT ![agent] = 0]
        st0 == [state EXCEPT ![agent] = action]
        last == closes_round
        rw == step_rewards(st0)
        sel == select_next
    IN  IF last /\ <<st0[PyIndex(agents, 0)], st0[PyIndex(agents, 1)]>> \notin DOMAIN REWARD_MAP
        THEN /\ cumulative_rewards' = cum0
             /\ state' = st0
             /\ err' = "KeyError"
             /\ UNCHANGED <<screen, agents, rewards, terminations, truncations,
                            observations, num_moves, agent_selector, agent_selection>>
        ELSE
        /\ state' = IF last THEN st0 ELSE clear_other(st0, agent)
        /\ rewards' = rw
        /\ num_moves' = IF last THEN num_moves + 1 ELSE num_moves
        /\ truncations' = IF last THEN round_truncations(num_moves + 1) ELSE truncations
        /\ observations' = round_observations(st0)
        /\ agent_selector' = sel
        /\ agent_selection' = sel.selected_agent
        /\ cumulative_rewards' = accumulate_rewards(cum0, rw)
        /\ err' = "none"
        /\ UNCHANGED <<screen, agents, terminations>>

\* step(action) of a live agent: lines 199-239 (render only prints).  At round
\* closure REWARD_MAP raises KeyError for a pair that is not one of its keys.
live_step(action) ==
    LET agent == agent_selection
        cum0 == [cumulative_rewards EXCEPT ![agent] = 0]
        st0 == [state EXCEPT ![agent] = action]
        last == closes_round
        rw == step_rewards(st0)
        sel == select_next
    IN  IF last /\ <<st0[PyIndex(agents, 0)], st0[PyIndex(agents, 1)]>> \notin DOMAIN REWARD_MAP
        THEN /\ cumulative_rewards' = cum0
             /\ state' = st0
             /\ err' = "KeyError"
             /\ UNCHANGED <<screen, agents, rewards, terminations, truncations,
                            observations, num_moves, agent_selector, agent_selection>>
        ELSE
        /\ state' = IF last THEN st0 ELSE clear_other(st0, agent)
        /\ rewards' = rw
        /\ num_moves' = IF last THEN num_moves + 1 ELSE num_moves
        /\ truncations' = IF last THEN round_truncations(num_moves + 1) ELSE truncations
        /\ observations' = IF last THEN round_observations(st0) ELSE observations
        /\ agent_selector' = sel
        /\ agent_selection' = sel.selected_agent
        /\ cumulative_rewards' = accumulate_rewards(cum0, rw)
        /\ err' = "none"
        /\ UNCHANGED <<screen, agents, terminations>>

\* mutant of step: the guard of the dead-step path forgets the truncations
step_terminated_only(action) ==
    IF terminations[agent_selection]
    THEN was_dead_step(action)
    ELSE live_step(action)

\* raw_env.step(action): a dead current actor takes the dead-step path and returns
step(action) ==
    IF terminations[agent_selection] \/ truncations[agent_selection]
    THEN was_dead_step(action)
    ELSE live_step(action)

\* mutant of reset_fields: the selector is advanced twice, the episode starts at player_1
reset_fields_second ==
    LET ags == possible_agents
        sel == SelectorNext(SelectorNext(SelectorInit(ags)))
    IN  [agents |-> ags,
         rewards |-> [a \in Range(ags) |-> 0],
         cumulative_rewards |-> [a \in Range(ags) |-> 0],
         terminations |-> [a \in Range(ags) |-> FALSE],
         truncations |-> [a \in Range(ags) |-> FALSE],
         state |-> [a \in Range(ags) |-> NONE],
         observations |-> [a \in Range(ags) |-> NONE],
         num_moves |-> 0,
         agent_selector |-> sel,
         agent_selection |-> sel.selected_agent]

\* raw_env.reset(): the fields reset assigns, as one record
reset_fields ==
    LET ags == possible_agents
        sel == SelectorNext(SelectorInit(ags))
    IN  [agents |-> ags,
         rewards |-> [a \in Range(ags) |-> 0],
         cumulative_rewards |-> [a \in Range(ags) |-> 0],
         terminations |-> [a \in Range(ags) |-> FALSE],
         truncations |-> [a \in Range(ags) |-> FALSE],
         state |-> [a \in Range(ags) |-> NONE],
         observations |-> [a \in Range(ags) |-> NONE],
         num_moves |-> 0,
         agent_selector |-> sel,
         agent_selection |-> sel.selected_agent]

\* the fields take the values of the record f
assign_fields(f) ==
    /\ agents' = f.agents
    /\ rewards' = f.rewards
    /\ cumulative_rewards' = f.cumulative_rewards
    /\ terminations' = f.terminations
    /\ truncations' = f.truncations
    /\ state' = f.state
    /\ observations' = f.observations
    /\ num_moves' = f.num_moves
    /\ agent_selector' = f.agent_selector
    /\ agent_selection' = f.agent_selection

\* raw_env.reset()
reset ==
    /\ assign_fields(reset_fields)
    /\ err' = "none"
    /\ UNCHANGED screen

----------------------------------------------------------------------------
\* tragedy_commons.py, TragedyCommonsEnv.  An entry of .rewards is a number or the
\* dictionary the summarizer returns; both are records [dict, reward, global] here,
\* a number r being [dict |-> FALSE, reward |-> r, global |-> 0].  Rewards are the
\* exact rationals of the code's divisions, counted in units of 1 / RewardScale.

\* len(MOVES) * NUM_ITERS * NUM_AGENTS: the common denominator of the policy
RewardScale == Cardinality(DOMAIN MOVES) * TC_NUM_ITERS * NUM_AGENTS

\* a number as an entry of .rewards
Number(r) == [dict |-> FALSE, reward |-> r, global |-> 0]

\* how many elements of the sequence equal x
Count(seq, x) == Cardinality({i \in 1..Len(seq) : seq[i] = x})

\* the index of the first x of the sequence
FirstIndex(seq, x) ==
    CHOOSE i \in 1..Len(seq) : seq[i] = x /\ \A j \in 1..(i - 1) : seq[j] /= x

\* reward_mapper_func: Counter(iterable).most_common(), the pairs (value, count)
\* by count descending, equal counts in order of first appearance
reward_mapper_func(iterable) ==
    LET keys == Range(iterable)
        before(x, y) ==
            \/ Count(iterable, x) > Count(iterable, y)
            \/ /\ Count(iterable, x) = Count(iterable, y)
               /\ FirstIndex(iterable, x) < FirstIndex(iterable, y)
        rank(x) == 1 + Cardinality({y \in keys : before(y, x)})
    IN  [r \in 1..Cardinality(keys) |->
            LET x == CHOOSE k \in keys : rank(k) = r
            IN  <<x, Count(iterable, x)>>]

\* rev_lookup_moves(move): the keys of MOVES for a tuple of move names
rev_lookup_moves(move) ==
    [i \in 1..Len(move) |-> CHOOSE k \in DOMAIN MOVES : MOVES[k] = move[i]]

\* "key in self.reward_map": the table has one entry for each tuple of
\* it.product(MOVES.values(), repeat=NUM_AGENTS)
in_reward_map(key) ==
    Len(key) = NUM_AGENTS /\ \A i \in 1..Len(key) : key[i] \in DOMAIN MOVES

\* len(self.reward_map): one entry for each tuple of the product
reward_map_size == Cardinality(DOMAIN MOVES) ^ NUM_AGENTS

\* self.reward_map[key], key in the table: reward_mapper_func(move) of the one
\* tuple move of the product with rev_lookup_moves(move) = key
reward_map(key) ==
    CHOOSE r \in {reward_mapper_func(move) :
                     move \in {[i \in 1..Len(key) |-> MOVES[key[i]]]}} : TRUE

\* dict(reward_val).get(name, 0)
signal_get(reward_val, name) ==
    IF \E i \in 1..Len(reward_val) : reward_val[i][1] = name
    THEN reward_val[CHOOSE i \in 1..Len(reward_val) : reward_val[i][1] = name][2]
    ELSE 0

\* blind_max_voter(reward_val, moves, agent_idx): the count of the top-ranked
\* action when moves.index(top) is agent_idx, else 0; list.index gives the first
\* position of the value
blind_max_voter(reward_val, moves, agent_idx) ==
    IF FirstIndex(moves, reward_val[1][1]) - 1 = agent_idx
    THEN reward_val[1][2]
    ELSE 0

\* mutant of global_cost_and_average: the global cost is charged whether or not
\* DEFECT is a key
global_cost_and_average_always(reward_val) ==
    LET c == signal_get(reward_val, "COOPERATE")
        res == c * (RewardScale \div Cardinality(DOMAIN MOVES))
    IN  [dict |-> TRUE, reward |-> res,
         global |-> -(res \div (TC_NUM_ITERS * NUM_AGENTS))]

\* global_cost_and_average(reward_val): reward = c / len(MOVES) for the cooperate
\* count c, global = -reward / (NUM_ITERS * NUM_AGENTS) when DEFECT is a key
global_cost_and_average(reward_val) ==
    LET c == signal_get(reward_val, "COOPERATE")
        res == c * (RewardScale \div Cardinality(DOMAIN MOVES))
        global_res ==
            IF \E i \in 1..Len(reward_val) : reward_val[i][1] = "DEFECT"
            THEN -(res \div (TC_NUM_ITERS * NUM_AGENTS))
            ELSE 0
    IN  [dict |-> TRUE, reward |-> res, global |-> global_res]

\* env(): summarizer_func=global_cost_and_average
summarizer_func(reward_val) == global_cost_and_average(reward_val)

\* TragedyCommonsEnv._accumulate_rewards: reward['reward'] of a dictionary, else
\* the number
tc_accumulate_rewards(cum, rw) ==
    [a \in DOMAIN cum |-> IF a \in DOMAIN rw THEN cum[a] + rw[a].reward ELSE cum[a]]

\* _clear_rewards() on the commons rewards
tc_clear_rewards(rw) == [a \in DOMAIN rw |-> Number(0)]

\* step: tuple([self.state.get(agent) for agent in self.agents])
reward_idx(st) == [i \in 1..Len(agents) |-> st[agents[i]]]

\* step, round closure: only the entry of the last actor is assigned, from the
\* table entry signal
tc_round_rewards(signal, agent) ==
    [rewards EXCEPT ![agent] = summarizer_func(signal)]

\* mutant of tc_round_truncations: the comparison is off by one
tc_round_truncations_late(moves) == [a \in Range(agents) |-> moves > TC_NUM_ITERS]

\* step, round closure: the truncations dictionary rebuilt for all agents
tc_round_truncations(moves) == [a \in Range(agents) |-> moves >= TC_NUM_ITERS]

\* step, round closure: observations[i] = state[agents[1 - agent_name_mapping[i]]]
tc_round_observations(st) ==
    [i \in DOMAIN observations |->
        IF i \in Range(agents) THEN st[other_agent(i)] ELSE observations[i]]

\* step, not the last actor: state[agents[1 - agent_name_mapping[agent]]] = NONE
tc_clear_other(st, agent) == [st EXCEPT ![other_agent(agent)] = TC_NONE]

\* render() at the end of step: _render_gui creates the screen when there is none
tc_render ==
    IF render_mode \in {"human", "rgb_array"} THEN "surface" ELSE screen

----------------------------------------------------------------------------
\* board.py, Board.  The grid is a numpy array of integers; a number passed to it
\* is a record [float, value], float telling a Python float from an int.

\* the cells of the grid the model keeps; the code's 64 cells are all treated alike
GridCells == 1

\* Board.__init__: rng.integers(low=0, high=2**8), the largest value of a cell
MaxCell == 255

\* Board.__init__: the values a cell may start with; the model keeps the two ends
\* of the range the seeded generator draws from
InitCellValues == {0, MaxCell}

\* Board.__init__: self.resources
InitGrids == [1..GridCells -> InitCellValues]

\* a Python int as a number passed to the board
IntDelta(v) == [float |-> FALSE, value |-> v]

\* Board.update_resources(rewards): "self.resources += rewards['global']" when
\* 'global' is a key of rewards, nothing otherwise.  The in-place addition of a
\* float to an integer array raises numpy's casting error and leaves the array.
update_resources(res, rw) ==
    IF "global" \in DOMAIN rw
    THEN IF rw["global"].float
         THEN [err |-> "UFuncTypeError", resources |-> res]
         ELSE [err |-> "none",
               resources |-> [c \in DOMAIN res |-> res[c] + rw["global"].value]]
    ELSE [err |-> "none", resources |-> res]

----------------------------------------------------------------------------
\* step(action) of a live agent: lines 308-352.  At round closure the table lookup
\* raises KeyError for a key that is not in the table, and self.screen.blit raises
\* AttributeError while self.screen is None; either leaves the assignments made so
\* far and skips the rest of step.  reward_idx_ is the local reward_idx of step,
\* signal the table entry self.reward_map[reward_idx].
tc_live_step(action) ==
    LET agent == agent_selection
        cum0 == [cumulative_rewards EXCEPT ![agent] = 0]
        st0 == [state EXCEPT ![agent] = action]
        sel == select_next
    IN  IF closes_round
        THEN \E reward_idx_ \in {reward_idx(st0)} :
             IF ~in_reward_map(reward_idx_)
             THEN /\ cumulative_rewards' = cum0
                  /\ state' = st0
                  /\ err' = "KeyError"
                  /\ UNCHANGED <<resources, screen, agents, rewards, terminations, truncations,
                                 observations, num_moves, agent_selector, agent_selection>>
             ELSE \E signal \in {reward_map(reward_idx_)} :
                  /\ state' = st0
                  /\ rewards' = tc_round_rewards(signal, agent)
                  /\ num_moves' = num_moves + 1
                  /\ truncations' = tc_round_truncations(num_moves + 1)
                  /\ observations' = tc_round_observations(st0)
                  /\ resources' = update_resources(resources, rewards').resources
                  /\ UNCHANGED <<agents, terminations>>
                  /\ IF screen = "None"
                     THEN /\ cumulative_rewards' = cum0
                          /\ err' = "AttributeError"
                          /\ UNCHANGED <<screen, agent_selector, agent_selection>>
                     ELSE /\ agent_selector' = sel
                          /\ agent_selection' = sel.selected_agent
                          /\ cumulative_rewards' = tc_accumulate_rewards(cum0, rewards')
                          /\ screen' = tc_render
                          /\ err' = "none"
        ELSE /\ state' = tc_clear_other(st0, agent)
             /\ rewards' = tc_clear_rewards(rewards)
             /\ agent_selector' = sel
             /\ agent_selection' = sel.selected_agent
             /\ cumulative_rewards' = tc_accumulate_rewards(cum0, rewards')
             /\ screen' = tc_render
             /\ err' = "none"
             /\ UNCHANGED <<resources, agents, terminations, truncations, observations,
                            num_moves>>

\* TragedyCommonsEnv.step(action)
tc_step(action) ==
    IF terminations[agent_selection] \/ truncations[agent_selection]
    THEN was_dead_step(action) /\ UNCHANGED resources
    ELSE tc_live_step(action)

\* TragedyCommonsEnv.reset(): the fields reset assigns, as one record
tc_reset_fields ==
    LET ags == possible_agents
        sel == SelectorNext(SelectorInit(ags))
    IN  [agents |-> ags,
         rewards |-> [a \in Range(ags) |-> Number(0)],
         cumulative_rewards |-> [a \in Range(ags) |-> 0],
         terminations |-> [a \in Range(ags) |-> FALSE],
         truncations |-> [a \in Range(ags) |-> FALSE],
         state |-> [a \in Range(ags) |-> TC_NONE],
         observations |-> [a \in Range(ags) |-> TC_NONE],
         num_moves |-> 0,
         agent_selector |-> sel,
         agent_selection |-> sel.selected_agent]

\* mutant of tc_reset: reset starts again from an empty grid
tc_reset_empty_grid ==
    /\ assign_fields(tc_reset_fields)
    /\ err' = "none"
    /\ resources' = [c \in DOMAIN resources |-> 0]
    /\ UNCHANGED screen

\* TragedyCommonsEnv.reset(): the screen and the board are not among the fields
\* it assigns
tc_reset ==
    /\ assign_fields(tc_reset_fields)
    /\ err' = "none"
    /\ UNCHANGED <<screen, resources>>

----------------------------------------------------------------------------
\* env() of aec_rps.py: raw_env wrapped in AssertOutOfBoundsWrapper

\* values outside Discrete(3) a caller may pass: the sentinel NONE and the next one
rps_out_of_domain == {NONE, NONE + 1}

\* mutant of out_of_bounds_step: the wrapper passes every action on to raw_env
out_of_bounds_step_open(action) == step(action)

\* AssertOutOfBoundsWrapper.step(action): an action that is neither None for a
\* dead agent nor a member of the action space is refused before raw_env.step
\* is reached
out_of_bounds_step(action) ==
    IF ~((action = None /\ dead(agent_selection)) \/ action \in action_space)
    THEN /\ err' = "OutOfBoundsError"
         /\ UNCHANGED env_vars
    ELSE step(action)

----------------------------------------------------------------------------
\* History of the calls: what the caller passed and how many calls it made.
\* Computed from the call alone (the actor's flags as last() shows them and a
\* count of the calls), never from the round detection of step.

\* the sentinel of the environment's round state
Sentinel == IF game = "rps" THEN NONE ELSE TC_NONE

\* the moves of the environment's action space
ActionDomain == IF game = "rps" THEN action_space ELSE tc_action_space

history_reset ==
    /\ call' = [op |-> "reset", action |-> None]
    /\ reset_from' =
          IF agents = <<>> THEN "drained"
          ELSE IF dead(agent_selection) THEN "truncated"
          ELSE IF live_steps % Len(possible_agents) /= 0 THEN "mid_round"
          ELSE IF live_steps = 0 THEN "start"
          ELSE "round_end"
    /\ live_steps' = 0
    /\ flushed' = <<>>
    /\ submitted' = [a \in Range(possible_agents) |-> Sentinel]
    /\ last_joint' = [a \in Range(possible_agents) |-> Sentinel]

history_step(action) ==
    /\ call' = [op |-> "step", action |-> action]
    /\ reset_from' = "none"
    /\ IF dead(agent_selection)
       THEN /\ flushed' = IF action = None THEN Append(flushed, agent_selection)
                          ELSE flushed
            /\ UNCHANGED <<live_steps, submitted, last_joint>>
       ELSE IF action \notin ActionDomain
            THEN UNCHANGED <<live_steps, flushed, submitted, last_joint>>
            ELSE LET sub == [submitted EXCEPT ![agent_selection] = action]
                 IN  /\ live_steps' = live_steps + 1
                     /\ submitted' = sub
                     /\ last_joint' = IF (live_steps + 1) % Len(possible_agents) = 0
                                      THEN sub ELSE last_joint
                     /\ UNCHANGED flushed

----------------------------------------------------------------------------
\* The environments as any caller may drive them

\* the last MovingAgents agents of the turn order submit any move; the agents
\* before them always submit COOPERATE
MovingAgents == 2

\* the moves the caller submits for the commons agent a
tc_moves(a) ==
    IF agent_name_mapping[a] >= Len(possible_agents) - MovingAgents
    THEN tc_action_space ELSE {COOPERATE}

\* the render modes env(render_mode) is called with
RenderModes == IF game = "rps" THEN {"None", "human"} ELSE {"None", "human", "rgb_array"}

\* TragedyCommonsEnv(num_agents=n) is made with n up to SmallAgents, and with the
\* default NUM_AGENTS
SmallAgents == 2

\* the values of the constructor argument num_agents
AgentCounts == (1..SmallAgents) \cup {NUM_AGENTS}

\* no function has been applied on its own
NoFn ==
    /\ fn_arg = <<>>
    /\ fn_out = [fn |-> "none", idx |-> 0, value |-> 0]

\* the history after the first reset
InitHistory ==
    /\ live_steps = 0
    /\ flushed = <<>>
    /\ submitted = [a \in Range(possible_agents) |-> Sentinel]
    /\ last_joint = [a \in Range(possible_agents) |-> Sentinel]
    /\ call = [op |-> "reset", action |-> None]
    /\ reset_from = "construction"

\* the values of the fields are those of the record f
fields_are(f) ==
    /\ agents = f.agents
    /\ rewards = f.rewards
    /\ cumulative_rewards = f.cumulative_rewards
    /\ terminations = f.terminations
    /\ truncations = f.truncations
    /\ state = f.state
    /\ observations = f.observations
    /\ num_moves = f.num_moves
    /\ agent_selector = f.agent_selector
    /\ agent_selection = f.agent_selection

\* env(render_mode) of either module, then reset, which the harness calls before
\* anything else
Init ==
    /\ game \in {"rps", "commons"}
    /\ render_mode \in RenderModes
    /\ possible_agents \in IF game = "rps" THEN {rps_possible_agents}
                           ELSE {tc_possible_agents(n) : n \in AgentCounts}
    /\ resources \in IF game = "rps" THEN {<<>>} ELSE InitGrids
    /\ screen = "None"
    /\ NoFn
    /\ fields_are(IF game = "rps" THEN reset_fields ELSE tc_reset_fields)
    /\ err = "none"
    /\ InitHistory

\* rock-paper-scissors env.reset()
Reset ==
    /\ game = "rps"
    /\ reset /\ history_reset
    /\ UNCHANGED <<ctor_vars, resources, fn_vars>>

\* rock-paper-scissors env.step(action): a live actor submits a move or (wrongly)
\* a value outside the action space, a dead actor None or (wrongly) a move
Step ==
    /\ game = "rps"
    /\ agents /= <<>>
    /\ \E action \in (IF dead(agent_selection) THEN action_space \cup {None}
                      ELSE action_space \cup rps_out_of_domain) :
          out_of_bounds_step(action) /\ history_step(action)
    /\ UNCHANGED <<ctor_vars, resources, fn_vars>>

\* commons env.reset()
TcReset ==
    /\ game = "commons"
    /\ tc_reset /\ history_reset
    /\ UNCHANGED <<ctor_vars, fn_vars>>

\* commons env.step(action); the caller makes no more live calls than an episode
\* has live steps
TcStep ==
    /\ game = "commons"
    /\ agents /= <<>>
    /\ dead(agent_selection) \/ live_steps < Len(possible_agents) * TC_NUM_ITERS
    /\ \E action \in (IF dead(agent_selection)
                      THEN tc_moves(agent_selection) \cup {None}
                      ELSE tc_moves(agent_selection)) :
          tc_step(action) /\ history_step(action)
    /\ UNCHANGED <<ctor_vars, fn_vars>>

Next == Reset \/ Step \/ TcReset \/ TcStep

Spec == Init /\ [][Next]_vars

----------------------------------------------------------------------------
\* The test driver of test_rps.py: env(render_mode="human"), reset once, then for
\* every agent of agent_iter a sampled move when last() shows it live and None
\* when it shows it dead.

\* test_rps.py lines 16-17
InitDriver == Init /\ game = "rps" /\ render_mode = "human"

\* the loop body: action chosen from last(), then env.step(action)
test_rps ==
    /\ agents /= <<>>
    /\ \E action \in (IF dead(agent_selection) THEN {None} ELSE action_space) :
          out_of_bounds_step(action) /\ history_step(action)
    /\ UNCHANGED <<ctor_vars, resources, fn_vars>>

\* the loop runs on while agent_iter yields an agent
SpecDriver == InitDriver /\ [][test_rps]_vars /\ WF_vars(test_rps)

----------------------------------------------------------------------------
\* The test driver of test_tragedy_commons.py: env(render_mode="human"), reset
\* once, then the same loop as test_rps.py.

\* test_tragedy_commons.py lines 18-19
InitTcDriver ==
    Init /\ game = "commons" /\ render_mode = "human"
         /\ Len(possible_agents) = NUM_AGENTS

\* the loop body: action chosen from last(), then env.step(action)
test_tragedy_commons ==
    /\ agents /= <<>>
    /\ \E action \in (IF dead(agent_selection) THEN {None}
                      ELSE tc_moves(agent_selection)) :
          tc_step(action) /\ history_step(action)
    /\ UNCHANGED <<ctor_vars, fn_vars>>

\* the loop runs on while agent_iter yields an agent
SpecTcDriver ==
    InitTcDriver /\ [][test_tragedy_commons]_vars /\ WF_vars(test_tragedy_commons)

----------------------------------------------------------------------------
\* The module-level functions of tragedy_commons.py applied on their own to the
\* signal of a joint action; no environment is made.

\* the module is imported and no environment object exists
NoEnv ==
    /\ game = "commons"
    /\ render_mode = "None"
    /\ possible_agents = <<>>
    /\ screen = "None"
    /\ agents = <<>>
    /\ rewards = <<>>
    /\ cumulative_rewards = <<>>
    /\ terminations = <<>>
    /\ truncations = <<>>
    /\ state = <<>>
    /\ observations = <<>>
    /\ num_moves = 0
    /\ agent_selector = SelectorInit(<<>>)
    /\ agent_selection = "nobody"
    /\ err = "none"
    /\ InitHistory

\* the longest joint action the functions are applied to
MaxJoint == 7

\* the move names: MOVES.values()
MoveNames == {MOVES[m] : m \in DOMAIN MOVES}

\* the joint actions, as tuples of move names
JointActions == UNION {[1..n -> MoveNames] : n \in 1..MaxJoint}

\* the module is imported and a joint action chosen
InitFunctions ==
    /\ NoEnv
    /\ resources = <<>>
    /\ fn_arg \in JointActions
    /\ fn_out = [fn |-> "none", idx |-> 0, value |-> 0]

\* blind_max_voter(reward_mapper_func(moves), moves, agent_idx)
BlindMaxVoter ==
    /\ \E agent_idx \in 0..(Len(fn_arg) - 1) :
          fn_out' = [fn |-> "blind_max_voter", idx |-> agent_idx,
                     value |-> blind_max_voter(reward_mapper_func(fn_arg), fn_arg,
                                               agent_idx)]
    /\ UNCHANGED <<ctor_vars, env_vars, err, history_vars, resources, fn_arg>>

\* global_cost_and_average(reward_mapper_func(moves))
GlobalCostAndAverage ==
    /\ fn_out' = [fn |-> "global_cost_and_average", idx |-> 0,
                  value |-> global_cost_and_average(reward_mapper_func(fn_arg))]
    /\ UNCHANGED <<ctor_vars, env_vars, err, history_vars, resources, fn_arg>>

\* reward_mapper_func(moves), the entry the table holds for the tuple moves
RewardMapperFunc ==
    /\ fn_out' = [fn |-> "reward_mapper_func", idx |-> 0,
                  value |-> reward_mapper_func(fn_arg)]
    /\ UNCHANGED <<ctor_vars, env_vars, err, history_vars, resources, fn_arg>>

NextFunctions == BlindMaxVoter \/ GlobalCostAndAverage \/ RewardMapperFunc

SpecFunctions == InitFunctions /\ [][NextFunctions]_vars

----------------------------------------------------------------------------
\* The board on its own: update_resources called with a dictionary.

\* the largest integer a caller passes as rewards['global'], either sign
MaxDelta == 1

\* the calls stop once a cell has left the range of Board.__init__ by more than this
GridSlack == 1

\* the numbers passed as rewards['global']: integers, and the float the policy
\* returns for one cooperator among defectors
Deltas ==
    {IntDelta(v) : v \in (-MaxDelta)..MaxDelta} \cup {[float |-> TRUE, value |-> -1]}

\* board.Board(): a board with the grid of Board.__init__, no environment
InitBoard ==
    /\ NoEnv
    /\ resources \in InitGrids
    /\ NoFn

\* the rewards dictionary of a reset default environment, keyed by agent
AgentKeyed == [a \in Range(tc_possible_agents(NUM_AGENTS)) |-> Number(0)]

\* board.update_resources(rw): rw a dictionary with the key 'global', or an
\* agent-keyed rewards dictionary as step passes
UpdateResources ==
    /\ \A c \in DOMAIN resources :
          resources[c] \in (-GridSlack)..(MaxCell + GridSlack)
    /\ \E rw \in {[global |-> d] : d \in Deltas} \cup {AgentKeyed} :
          /\ resources' = update_resources(resources, rw).resources
          /\ err' = update_resources(resources, rw).err
          /\ call' = [op |-> "update_resources",
                      action |-> IF "global" \in DOMAIN rw THEN rw["global"].value
                                 ELSE None]
    /\ UNCHANGED <<ctor_vars, env_vars, fn_vars, live_steps, flushed, submitted,
                   last_joint, reset_from>>

SpecBoard == InitBoard /\ [][UpdateResources]_vars

----------------------------------------------------------------------------
\* Shorthands for the properties

N == Len(possible_agents)

\* the round limit of the environment
NumIters == IF game = "rps" THEN NUM_ITERS ELSE TC_NUM_ITERS

\* the reward entry 0 of the environment
Zero == IF game = "rps" THEN 0 ELSE Number(0)

\* the transition is a step call on a live current actor with a move of the
\* action space
LiveCall ==
    call'.op = "step" /\ ~dead(agent_selection) /\ call'.action \in ActionDomain

\* the transition is a step call on a dead current actor
DeadCall == call'.op = "step" /\ dead(agent_selection)

\* the transition is the live step that ends a round: the N-th, 2N-th, ... since reset
ClosingCall == LiveCall /\ (live_steps + 1) % N = 0

\* the agent after a in the fixed order, wrapping from the last to the first
Successor(a) == possible_agents[((agent_name_mapping[a] + 1) % N) + 1]

\* the cyclic-dominance reference of rock-paper-scissors
RefPayoff(a0, a1) ==
    IF a0 = a1 THEN <<0, 0>>
    ELSE IF (a0 - a1) % 3 = 1 THEN <<1, -1>>
    ELSE <<-1, 1>>

\* a round is open: at least one agent has acted in it and at least one has not
MidRound == agents /= <<>> /\ live_steps % N /= 0 /\ ~dead(agent_selection)

\* the agents that have not yet acted in the open round
NotYetActed == {possible_agents[i] : i \in ((live_steps % N) + 1)..N}

\* the environment has a drawing surface whenever a round closes: every
\* configuration but the commons environment made without a render mode
Rendered == game = "commons" => render_mode /= "None"

\* the commons environment has the agent count its payoff table was built for
TableFits == game = "commons" => Len(possible_agents) = NUM_AGENTS

----------------------------------------------------------------------------
\* C1. Round closure: rewards are distributed (num_moves goes up by one and the
\* rewards are assigned) in the live steps numbered N, 2N, 3N, ... since reset and
\* in no other; after any other live step every reward is 0 and num_moves is as
\* before.
RoundClosure ==
    [][LiveCall =>
          IF (live_steps + 1) % N = 0
          THEN num_moves' = num_moves + 1
          ELSE num_moves' = num_moves /\ \A a \in DOMAIN rewards' : rewards'[a] = Zero]_vars

\* C1 where a drawing surface exists and the payoff table fits: the same
\* statement, the commons environment without a render mode or with another
\* agent count left aside
RoundClosureRendered ==
    [][(Rendered /\ TableFits /\ LiveCall) =>
          IF (live_steps + 1) % N = 0
          THEN num_moves' = num_moves + 1
          ELSE num_moves' = num_moves /\ \A a \in DOMAIN rewards' : rewards'[a] = Zero]_vars

\* C2. Rock-paper-scissors payoff: the step that closes a round sets the rewards
\* to REWARD_MAP at the pair of actions submitted in that round; REWARD_MAP has
\* the 9 pairs of moves as its keys and equals the cyclic-dominance reference.
RpsPayoff ==
    [][/\ DOMAIN REWARD_MAP = action_space \X action_space
       /\ Cardinality(DOMAIN REWARD_MAP) = 9
       /\ \A p \in DOMAIN REWARD_MAP : REWARD_MAP[p] = RefPayoff(p[1], p[2])
       /\ (game = "rps" /\ ClosingCall) =>
             <<rewards'["player_0"], rewards'["player_1"]>> =
                 RefPayoff(submitted'["player_0"], submitted'["player_1"])]_vars

\* a round closed on (ROCK, SCISSORS) with rewards (1, -1)
RpsPayoffWitness ==
    /\ game = "rps" /\ live_steps > 0 /\ live_steps % N = 0
    /\ submitted["player_0"] = ROCK /\ submitted["player_1"] = SCISSORS
    /\ rewards["player_0"] = 1 /\ rewards["player_1"] = -1

\* C3. Truncation: all agents in the episode have the same truncated flag, and it
\* is true exactly when num_moves has reached the round limit.
TruncationSimultaneous ==
    \A a \in Range(agents) : truncations[a] = (num_moves >= NumIters)

\* the last round has just closed and every agent is truncated
TruncationWitness ==
    /\ agents = possible_agents /\ num_moves = NumIters /\ flushed = <<>>
    /\ live_steps = N * NumIters
    /\ \A a \in Range(agents) : truncations[a]

\* C4. Sticky terminal state: no step call turns a terminated or truncated flag
\* that is true back to false.
StickyTerminal ==
    [][call'.op = "step" =>
          \A a \in DOMAIN truncations :
              /\ (truncations[a] /\ a \in DOMAIN truncations') => truncations'[a]
              /\ (terminations[a] /\ a \in DOMAIN terminations') => terminations'[a]]_vars

\* every agent took its dead step and the flags are still true
StickyWitness ==
    agents = <<>> /\ Len(flushed) = N /\ \A a \in DOMAIN truncations : truncations[a]

\* C5. Cyclic turn order: reset makes the first agent the current actor, and
\* every step of a live actor moves agent_selection to its successor in the fixed
\* order, wrapping from the last agent to the first.
CyclicTurnOrder ==
    [][/\ call'.op = "reset" => agent_selection' = possible_agents[1]
       /\ LiveCall => agent_selection' = Successor(agent_selection)]_vars

\* C5 where a drawing surface exists and the payoff table fits: the same
\* statement, the commons environment without a render mode or with another
\* agent count left aside
CyclicTurnOrderRendered ==
    [][(Rendered /\ TableFits) =>
          /\ call'.op = "reset" => agent_selection' = possible_agents[1]
          /\ LiveCall => agent_selection' = Successor(agent_selection)]_vars

DeadStepFrame ==
    [][(DeadCall /\ call'.action = None) =>
          /\ state' = state /\ observations' = observations
          /\ num_moves' = num_moves
          /\ truncations' = truncations /\ terminations' = terminations
          /\ rewards' = rewards /\ cumulative_rewards' = cumulative_rewards
          /\ err' = "none"]_vars

\* the first dead step is done and the rewards of the last round are still there
DeadStepWitness ==
    /\ Len(flushed) = 1 /\ call = [op |-> "step", action |-> None]
    /\ \E a \in DOMAIN rewards : rewards[a] /= Zero /\ cumulative_rewards[a] /= 0

\* C8. A non-None action on a dead current actor raises the invalid-action error
\* and leaves the environment as it was.
InvalidDeadAction ==
    [][(DeadCall /\ call'.action /= None) =>
          err' = "InvalidActionError" /\ UNCHANGED env_vars]_vars

\* a move was submitted for a truncated actor and the error was raised
InvalidDeadActionWitness ==
    /\ err = "InvalidActionError" /\ call.op = "step" /\ call.action /= None
    /\ agents /= <<>> /\ truncations[agent_selection]

\* C9. One flush step per agent: dead steps happen only once all agents are
\* truncated; no agent takes two, the agents that took theirs are exactly those no
\* longer in the agents list, the current actor is one that has not taken it, and
\* the agents list is empty exactly after the N-th.
OneFlushPerAgent ==
    /\ \A i, j \in 1..Len(flushed) : flushed[i] = flushed[j] => i = j
    /\ Range(flushed) \cap Range(agents) = {}
    /\ Range(flushed) \cup Range(agents) = Range(possible_agents)
    /\ flushed /= <<>> => num_moves >= NumIters
    /\ agents /= <<>> => agent_selection \in Range(agents)
    /\ (agents = <<>>) = (Len(flushed) = N)

\* every agent took its dead step, in turn order, and the agents list is empty
OneFlushWitness ==
    agents = <<>> /\ flushed = possible_agents /\ num_moves = NumIters

\* C10. Under the test driver the loop ends, it never raises, and it ends after
\* N * NUM_ITERS live steps followed by N dead steps.
DriverTerminates ==
    /\ <>(agents = <<>>)
    /\ [](err = "none")
    /\ [](flushed /= <<>> => live_steps = N * NUM_ITERS)
    /\ [](agents = <<>> => (live_steps = N * NUM_ITERS /\ Len(flushed) = N))

\* the driver's loop has ended after 200 live steps and 2 dead steps
DriverTerminatesWitness ==
    agents = <<>> /\ live_steps = 200 /\ Len(flushed) = 2 /\ err = "none"

\* C11. Under the commons test driver (render_mode "human") the loop ends, it
\* never raises, and it ends after NUM_AGENTS * NUM_ITERS live steps followed by
\* NUM_AGENTS dead steps.
TcDriverTerminates ==
    /\ <>(agents = <<>>)
    /\ [](err = "none")
    /\ [](flushed /= <<>> => live_steps = NUM_AGENTS * TC_NUM_ITERS)
    /\ [](agents = <<>> =>
             (live_steps = NUM_AGENTS * TC_NUM_ITERS /\ Len(flushed) = NUM_AGENTS))

\* the commons driver's loop has ended after 100 live steps and 10 dead steps
TcDriverTerminatesWitness ==
    /\ game = "commons" /\ agents = <<>> /\ err = "none"
    /\ live_steps = 100 /\ Len(flushed) = 10

\* C12. Payoff totality: in the commons environment made with any agent count N
\* the table has 3^N entries and the lookup at round closure never misses.
PayoffTotality ==
    game = "commons" =>
        /\ reward_map_size = Cardinality(tc_action_space) ^ N
        /\ err /= "KeyError"

\* C12 for the default agent count only: the table has 3^NUM_AGENTS entries and
\* the lookup never misses
PayoffTotalityDefault ==
    (game = "commons" /\ TableFits) =>
        /\ reward_map_size = Cardinality(tc_action_space) ^ N
        /\ err /= "KeyError"

\* C13. Blind max voter: every agent whose own action is the top-ranked action of
\* the signal gets the count of that action, every other agent 0.
BlindMaxVoterAll ==
    fn_out.fn = "blind_max_voter" =>
        LET signal == reward_mapper_func(fn_arg)
        IN  fn_out.value = IF fn_arg[fn_out.idx + 1] = signal[1][1]
                           THEN signal[1][2] ELSE 0

\* C13 as the code has it: only the first agent that chose the top-ranked action
\* gets its count
BlindMaxVoterFirst ==
    fn_out.fn = "blind_max_voter" =>
        LET signal == reward_mapper_func(fn_arg)
            top == signal[1][1]
        IN  fn_out.value =
                IF /\ fn_arg[fn_out.idx + 1] = top
                   /\ \A j \in 1..fn_out.idx : fn_arg[j] /= top
                THEN signal[1][2] ELSE 0

\* C14. Cost-and-average policy: for cooperate count c of the joint action,
\* reward = c / 3, global = 0 without a DEFECT and -reward / (NUM_ITERS *
\* NUM_AGENTS) with one; global is never positive and is 0 when c = 0.  Rewards
\* are in units of 1 / RewardScale.
CostAndAverage ==
    fn_out.fn = "global_cost_and_average" =>
        LET c == Count(fn_arg, "COOPERATE")
            defect == Count(fn_arg, "DEFECT") > 0
            r == fn_out.value
        IN  /\ r.reward * Cardinality(DOMAIN MOVES) = c * RewardScale
            /\ ~defect => r.global = 0
            /\ defect => r.global * (TC_NUM_ITERS * NUM_AGENTS) = -r.reward
            /\ defect => r.global * 300 = (-c) * RewardScale
            /\ r.global <= 0
            /\ c = 0 => r.global = 0

\* six cooperators and a defector: reward 2 and global -(6/3)/100
CostAndAverageWitness ==
    /\ fn_out.fn = "global_cost_and_average"
    /\ Count(fn_arg, "COOPERATE") = 6 /\ Count(fn_arg, "DEFECT") = 1
    /\ fn_out.value.reward = 2 * RewardScale
    /\ fn_out.value.global * 100 = -2 * RewardScale

\* C15. Resource-pool floor: every cell of the grid is >= 0 after every call of
\* update_resources.
ResourceFloor ==
    \A c \in DOMAIN resources : resources[c] >= 0


\* the result of the policy for the joint action the closing step looks up
PolicyResult == summarizer_func(reward_map(reward_idx(state')))

\* C16. Global delta reaches the pool: the step that closes a commons round whose
\* joint action has a DEFECT and a cooperate count c > 0 adds the policy's global
\* delta, -c / 300, to every cell of the resource pool.  The pool is in whole
\* units, the delta in units of 1 / RewardScale.
GlobalDeltaReachesPool ==
    [][(game = "commons" /\ Rendered /\ TableFits /\ ClosingCall
            /\ Count(reward_idx(state'), DEFECT) > 0
            /\ Count(reward_idx(state'), COOPERATE) > 0) =>
          \A cell \in DOMAIN resources :
              resources'[cell] * RewardScale =
                  resources[cell] * RewardScale - Count(reward_idx(state'), COOPERATE)]_vars

\* C17. Out-of-domain action is rejected at once: in rock-paper-scissors a step on
\* a live current actor with an action outside the action space signals the
\* out-of-bounds error in that call and leaves every field, the round state
\* included, as it was.
OutOfBoundsRejected ==
    [][(game = "rps" /\ call'.op = "step" /\ ~dead(agent_selection)
            /\ call'.action \notin action_space) =>
          (err' = "OutOfBoundsError" /\ UNCHANGED env_vars)]_vars

\* the second agent, the one whose step would close the round, submitted the
\* sentinel and was refused; the first agent's move is still in the round state
OutOfBoundsWitness ==
    /\ game = "rps"
    /\ call = [op |-> "step", action |-> NONE]
    /\ err = "OutOfBoundsError"
    /\ agent_selection = possible_agents[N]
    /\ live_steps % N = 1
    /\ state[possible_agents[1]] \in action_space

\* C18. Core stays advanceable without rendering: in the commons environment, in
\* every render mode, the step that closes a round ends without an error, with
\* num_moves one higher, the truncation flags set from it and agent_selection at
\* the next agent.
CoreAdvanceable ==
    [][(game = "commons" /\ TableFits /\ ClosingCall) =>
          /\ err' = "none"
          /\ num_moves' = num_moves + 1
          /\ truncations' = [a \in Range(agents) |-> num_moves + 1 >= TC_NUM_ITERS]
          /\ agent_selection' = Successor(agent_selection)]_vars

\* C18 where a drawing surface exists: the same statement for the render modes
\* human and rgb_array
CoreAdvanceableRendered ==
    [][(game = "commons" /\ Rendered /\ TableFits /\ ClosingCall) =>
          /\ err' = "none"
          /\ num_moves' = num_moves + 1
          /\ truncations' = [a \in Range(agents) |-> num_moves + 1 >= TC_NUM_ITERS]
          /\ agent_selection' = Successor(agent_selection)]_vars

\* C19. Joint action integrity: when a commons round closes, the joint action
\* looked up in the payoff table has for every agent the action that agent
\* submitted in the round.
JointActionIntegrity ==
    [][(game = "commons" /\ Rendered /\ TableFits /\ ClosingCall) =>
          \A a \in Range(agents) : state'[a] = submitted'[a]]_vars

\* C20. All agents are rewarded: when a commons round closes, every agent's reward
\* is the policy result for the round's joint action and every agent's cumulative
\* reward goes up by it in the same step (the acting agent's starts again at 0).
AllAgentsRewarded ==
    [][(game = "commons" /\ Rendered /\ TableFits /\ ClosingCall) =>
          \A a \in Range(agents) :
              /\ rewards'[a] = PolicyResult
              /\ cumulative_rewards'[a] =
                    (IF a = agent_selection THEN 0 ELSE cumulative_rewards[a])
                        + PolicyResult.reward]_vars

\* C20 as the code has it: only the last actor's reward is the policy result,
\* every other agent's reward stays 0 and its cumulative reward as it was
LastActorRewarded ==
    [][(game = "commons" /\ Rendered /\ TableFits /\ ClosingCall) =>
          \A a \in Range(agents) :
              IF a = agent_selection
              THEN rewards'[a] = PolicyResult
                   /\ cumulative_rewards'[a] = PolicyResult.reward
              ELSE rewards'[a] = Number(0)
                   /\ cumulative_rewards'[a] = cumulative_rewards[a]]_vars


\* the key of MOVES with the name: the place of the move in the action-domain
\* enumeration
MoveKey(name) == CHOOSE k \in DOMAIN MOVES : MOVES[k] = name

\* the signal lists each chosen move once, with the number of agents that chose
\* it, by count descending
SignalCounts(sig, moves) ==
    /\ Len(sig) = Cardinality(Range(moves))
    /\ {sig[i][1] : i \in 1..Len(sig)} = Range(moves)
    /\ \A i \in 1..Len(sig) : sig[i][2] = Count(moves, sig[i][1]) /\ sig[i][2] > 0
    /\ \A i, j \in 1..Len(sig) : i < j => sig[i][2] >= sig[j][2]

\* C21. Payoff signal ordering: the table entry of a joint action lists each
\* chosen move once with its count, by count descending, and moves with equal
\* counts in the order of the action-domain enumeration (COOPERATE, DEFECT, NONE).
SignalOrdering ==
    fn_out.fn = "reward_mapper_func" =>
        /\ SignalCounts(fn_out.value, fn_arg)
        /\ \A i, j \in 1..Len(fn_out.value) :
              (i < j /\ fn_out.value[i][2] = fn_out.value[j][2]) =>
                  MoveKey(fn_out.value[i][1]) < MoveKey(fn_out.value[j][1])

\* C21 as the code has it: moves with equal counts are in the order of their
\* first appearance in the joint action
SignalOrderingFirstAppearance ==
    fn_out.fn = "reward_mapper_func" =>
        /\ SignalCounts(fn_out.value, fn_arg)
        /\ \A i, j \in 1..Len(fn_out.value) :
              (i < j /\ fn_out.value[i][2] = fn_out.value[j][2]) =>
                  FirstIndex(fn_arg, fn_out.value[i][1])
                      < FirstIndex(fn_arg, fn_out.value[j][1])


\* C22. Rock-paper-scissors is zero-sum in every reachable state: the two rewards
\* are in {-1, 0, 1} and sum to 0, and REWARD_MAP is antisymmetric under swapping
\* the players.
ZeroSum ==
    game = "rps" =>
        /\ \A a \in DOMAIN rewards : rewards[a] \in {-1, 0, 1}
        /\ rewards[possible_agents[1]] + rewards[possible_agents[2]] = 0
        /\ \A a, b \in action_space :
              /\ REWARD_MAP[<<a, b>>][1] + REWARD_MAP[<<a, b>>][2] = 0
              /\ REWARD_MAP[<<b, a>>] = <<REWARD_MAP[<<a, b>>][2], REWARD_MAP[<<a, b>>][1]>>

\* a round has just been won by player_0
ZeroSumWitness ==
    /\ game = "rps"
    /\ call.op = "step" /\ live_steps > 0 /\ live_steps % N = 0
    /\ rewards[possible_agents[1]] = 1 /\ rewards[possible_agents[2]] = -1


\* C23. Resource pool frame conditions: every operation of the commons
\* environment other than the live step of the last agent of a round (a live step
\* that does not close a round, a dead step, a refused step, reset) leaves every
\* cell of the grid as it was.
PoolFrame ==
    [][(game = "commons"
            /\ ~(call'.op = "step" /\ ~dead(agent_selection) /\ closes_round)) =>
          resources' = resources]_vars

\* reset was called after a rendered step and the grid is the one of Board.__init__
PoolFrameWitness ==
    /\ game = "commons"
    /\ call.op = "reset" /\ screen = "surface"
    /\ resources \in InitGrids


\* C24. Rock-paper-scissors observation after a round: right after the step that
\* closes a round each player observes the action the other player submitted in
\* that round; before the first round of an episode has closed both observe NONE.
RoundObservation ==
    /\ [][(game = "rps" /\ ClosingCall) =>
            /\ observe(possible_agents[1])' = submitted'[possible_agents[2]]
            /\ observe(possible_agents[2])' = submitted'[possible_agents[1]]]_vars
    /\ []((game = "rps" /\ live_steps < N) =>
            \A a \in Range(possible_agents) : observe(a) = NONE)

\* a round has just closed with different moves: player_0 observes player_1's
\* PAPER, player_1 observes player_0's ROCK
RoundObservationWitness ==
    /\ game = "rps"
    /\ call.op = "step" /\ live_steps > 0 /\ live_steps % N = 0
    /\ submitted[possible_agents[1]] = ROCK /\ submitted[possible_agents[2]] = PAPER
    /\ observe(possible_agents[1]) = PAPER /\ observe(possible_agents[2]) = ROCK


\* C25. Reset restores the initial state: from any state, reset puts
\* rock-paper-scissors into one fixed state (both agents present, rewards and
\* cumulative rewards 0, no flag set, round state and observations NONE,
\* num_moves 0, current actor player_0); a reset right after a reset changes no
\* field.
ResetRestores ==
    [][(game = "rps" /\ call'.op = "reset") =>
          /\ agents' = <<"player_0", "player_1">>
          /\ \A a \in {"player_0", "player_1"} :
                /\ rewards'[a] = 0 /\ cumulative_rewards'[a] = 0
                /\ ~terminations'[a] /\ ~truncations'[a]
                /\ state'[a] = NONE /\ observations'[a] = NONE
          /\ num_moves' = 0
          /\ agent_selection' = "player_0"
          /\ err' = "none"
          /\ call.op = "reset" => UNCHANGED env_vars]_vars

\* reset was called after the episode had drained, and the fixed state is back
ResetRestoresWitness ==
    /\ game = "rps"
    /\ call.op = "reset" /\ reset_from = "drained"
    /\ agents = <<"player_0", "player_1">> /\ num_moves = 0
    /\ agent_selection = "player_0"


\* the reward of agent a in the last closed round of the episode, 0 when no round
\* has closed since reset
LastRoundReward(a) ==
    IF live_steps < N THEN 0
    ELSE REWARD_MAP[<<last_joint[possible_agents[1]], last_joint[possible_agents[2]]>>]
                   [agent_name_mapping[a] + 1]

\* C26. Cumulative reward seen by the actor: in rock-paper-scissors the cumulative
\* reward of a live current actor is its reward of the last closed round (0 when
\* none has closed since reset), and every cumulative reward is in {-1, 0, 1}.
CumulativeSeen ==
    game = "rps" =>
        /\ \A a \in DOMAIN cumulative_rewards : cumulative_rewards[a] \in {-1, 0, 1}
        /\ (agents /= <<>> /\ ~dead(agent_selection)) =>
              cumulative_rewards[agent_selection] = LastRoundReward(agent_selection)

\* player_1 is about to act in a later round and sees the 1 it won in the round
\* before, player_0 having already stepped in between
CumulativeSeenWitness ==
    /\ game = "rps"
    /\ agent_selection = possible_agents[2] /\ ~dead(agent_selection)
    /\ live_steps > N /\ live_steps % N = 1
    /\ LastRoundReward(agent_selection) = 1
    /\ cumulative_rewards[agent_selection] = 1


\* C27. Round counter bound and end by truncation only: in both environments
\* 0 <= num_moves <= NUM_ITERS in every reachable state and no terminated flag is
\* ever true.
RoundCounterBound ==
    /\ 0 <= num_moves /\ num_moves <= NumIters
    /\ \A a \in DOMAIN terminations : ~terminations[a]

\* the last round of an episode has closed: the counter is at its bound, every
\* agent is truncated and none terminated
RoundCounterWitness ==
    /\ game = "rps"
    /\ num_moves = NUM_ITERS
    /\ agents = possible_agents
    /\ \A a \in Range(agents) : truncations[a] /\ ~terminations[a]

\* the same in the commons environment
RoundCounterTcWitness ==
    /\ game = "commons"
    /\ num_moves = TC_NUM_ITERS
    /\ agents = possible_agents
    /\ \A a \in Range(agents) : truncations[a] /\ ~terminations[a]


\* C28. No leak of the current round's move in rock-paper-scissors: the step in
\* which player_0 opens a round leaves what player_1 sees as the next actor
\* (its observation, its reward, its cumulative reward) a function of the state
\* before that step alone, whatever action player_0 submitted: the observation
\* and the cumulative reward are as before the step and the reward is 0.  Two
\* runs that differ only in that action therefore agree on the three values when
\* player_1 is the current actor of the round.
NoLeak ==
    [][(game = "rps" /\ LiveCall /\ ~ClosingCall) =>
          /\ agent_selection = possible_agents[1]
          /\ agent_selection' = possible_agents[2]
          /\ observe(possible_agents[2])' = observe(possible_agents[2])
          /\ rewards'[possible_agents[2]] = 0
          /\ cumulative_rewards'[possible_agents[2]] =
                cumulative_rewards[possible_agents[2]]]_vars

\* player_1 is the current actor of a later round; player_0 has submitted PAPER
\* in this round and player_1 still observes player_0's ROCK of the round before
NoLeakWitness ==
    /\ game = "rps"
    /\ agent_selection = possible_agents[2] /\ ~dead(agent_selection)
    /\ live_steps > N /\ live_steps % N = 1
    /\ submitted[possible_agents[1]] = PAPER
    /\ last_joint[possible_agents[1]] = ROCK
    /\ observe(possible_agents[2]) = ROCK
    /\ rewards[possible_agents[2]] = 0

====
